---- MODULE Spec2Model ----
(***************************************************************************)
(* Burst Variance Analysis (depi/bva.py): the three functions bva,         *)
(* bva_bin and bva_bin_combo, modelled statement by statement over a       *)
(* photon table, a window size n, a threshold and a bin-edge array.        *)
(*                                                                         *)
(* Numbers.  Every real the code computes is a rational or the square root *)
(* of one, and is kept exact:                                              *)
(*   - a ratio, a raw efficiency, a bin edge, a bin center is a reduced    *)
(*     fraction <<p, q>> with q > 0;                                       *)
(*   - a value of an output array is a record [kind, num, den]:            *)
(*       kind = "sqrt": the real sqrt(num/den) (what np.std returns),      *)
(*       kind = "int" : the integer num (the sentinel -1),                 *)
(*       kind = "nan" : NaN (np.std of an empty list).                     *)
(* Floating-point rounding is not modelled.                                *)
(***************************************************************************)
EXTENDS Integers, Sequences, FiniteSets, TLC

(* ------------------------------ bounds -------------------------------- *)

\* Largest number of photon rows of the input table.
MaxRows == 3
\* Largest window size n tried (the smallest is -1).
MaxN == 2
\* Largest threshold num_sub_bursts_th tried (the smallest is -1).
MaxTh == 1

BurstIds == {0, 1}
Streams == {"DexAem", "DexDem"}

\* One row of the DataFrame: index level 'burst' and column 'stream'; the
\* index level 'ph' is the row's rank among the rows of its burst.
PhotonRows == [burst : BurstIds, stream : Streams]
PhotonTables == UNION {[1..k -> PhotonRows] : k \in 1..MaxRows}

NValues == -1..MaxN
ThValues == -1..MaxTh

(* ------------------------- exact arithmetic --------------------------- *)

Abs(x) == IF x < 0 THEN -x ELSE x

RECURSIVE Gcd(_, _)
Gcd(a, b) == IF b = 0 THEN a ELSE Gcd(b, a % b)

Lcm(a, b) == (a * b) \div Gcd(a, b)

\* The fraction p/q (q > 0), reduced.
Frac(p, q) == LET g == Gcd(Abs(p), q) IN <<p \div g, q \div g>>

RAdd(a, b) == Frac(a[1] * b[2] + b[1] * a[2], a[2] * b[2])
RSub(a, b) == Frac(a[1] * b[2] - b[1] * a[2], a[2] * b[2])
RMul(a, b) == Frac(a[1] * b[1], a[2] * b[2])
RLe(a, b) == a[1] * b[2] <= b[1] * a[2]
RLt(a, b) == a[1] * b[2] < b[1] * a[2]

RECURSIVE SumSeq(_)
SumSeq(s) == IF s = <<>> THEN 0 ELSE Head(s) + SumSeq(Tail(s))

RECURSIVE LcmSeq(_)
LcmSeq(s) == IF s = <<>> THEN 1 ELSE Lcm(Head(s), LcmSeq(Tail(s)))

RECURSIVE Flatten(_)
Flatten(ss) == IF ss = <<>> THEN <<>> ELSE Head(ss) \o Flatten(Tail(ss))

NaN == [kind |-> "nan", num |-> 0, den |-> 1]
Sentinel == [kind |-> "int", num |-> -1, den |-> 1]
Sqrt(f) == [kind |-> "sqrt", num |-> f[1], den |-> f[2]]

(* ------------------------------ inputs -------------------------------- *)

\* np.arange(0, 1.01, 0.05), the default E_bins: 0, 1/20, ..., 20/20.
DefaultE_bins == [j \in 1..21 |-> Frac(j - 1, 20)]

\* The bin-edge arrays tried: uniform over [0,1]; non-uniform over [0,1];
\* uniform but not covering [0,1]; one bin reaching past 1; the default.
EdgeChoices == { << <<0, 1>>, <<1, 2>>, <<1, 1>> >>,
                 << <<0, 1>>, <<3, 4>>, <<1, 1>> >>,
                 << <<1, 4>>, <<1, 2>>, <<3, 4>> >>,
                 << <<0, 1>>, <<5, 4>> >>,
                 DefaultE_bins }

(* ------------------------------ state --------------------------------- *)

VARIABLES
    burstsph_Dex,        \* argument: the photon table, a sequence of rows
    n,                   \* argument: the sub-burst window size
    num_sub_bursts_th,   \* argument: the threshold
    E_bins,              \* argument: the bin edges
    pc,                  \* the function running and its position, or "idle"
    loop,                \* burst ids the running for loop has still to visit
    i,                   \* the loop variable: the burst visited last (-1: none)
    E_centers,           \* local of bva_bin and bva_bin_combo
    E_raw_bins,          \* local: burst id -> bin key (the Series)
    E_sub_bursts,        \* local of bva and bva_bin_combo: ratios of burst i
    E_sub_std,           \* local of bva and bva_bin_combo
    E_sub_bursts_bin,    \* local: the defaultdict(list), bin key -> list
    E_sub_std_mean_bin,  \* local of bva_bin and bva_bin_combo
    ret                  \* what each function returned, or that it raised

vars == <<burstsph_Dex, n, num_sub_bursts_th, E_bins, pc, loop, i, E_centers,
          E_raw_bins, E_sub_bursts, E_sub_std, E_sub_bursts_bin,
          E_sub_std_mean_bin, ret>>

args == <<burstsph_Dex, n, num_sub_bursts_th, E_bins>>

\* An empty dict / Series.
EmptyDict == [k \in {} |-> <<>>]

\* d[k] of a defaultdict(list), and dict.get(k, <<>>).
DictGet(d, k) == IF k \in DOMAIN d THEN d[k] ELSE <<>>

\* d[k].append(x) of a defaultdict(list).
DictAppend(d, k, x) ==
    [key \in DOMAIN d \cup {k} |->
        IF key = k THEN Append(DictGet(d, k), x) ELSE d[key]]

NotCalled == [status |-> "none", E_sub_std |-> <<>>,
              E_sub_std_mean_bin |-> <<>>, E_centers |-> <<>>]
Raised(exc) == [status |-> exc, E_sub_std |-> <<>>,
                E_sub_std_mean_bin |-> <<>>, E_centers |-> <<>>]
Returned(std, mean_bin, centers) ==
    [status |-> "ok", E_sub_std |-> std,
     E_sub_std_mean_bin |-> mean_bin, E_centers |-> centers]

(* ------------------------ the code's expressions ---------------------- *)

RECURSIVE SortedSeq(_)
SortedSeq(S) ==
    IF S = {} THEN <<>>
    ELSE LET m == CHOOSE x \in S : \A y \in S : x <= y
         IN <<m>> \o SortedSeq(S \ {m})

\* Burst ids in the order of their first row in the table.
RECURSIVE FirstSeen(_)
FirstSeen(rows) ==
    IF rows = <<>> THEN <<>>
    ELSE LET b == Head(rows).burst
         IN <<b>> \o FirstSeen(SelectSeq(Tail(rows), LAMBDA r : r.burst # b))

\* A burst loop that keeps the order of the table instead of np.unique's.
np_unique_unsorted(table) == FirstSeen(table)

\* np.unique(burstsph_Dex.index.get_level_values('burst')): the distinct
\* burst ids, sorted ascending.
np_unique(table) == SortedSeq({table[r].burst : r \in DOMAIN table})

\* (burstsph_Dex.stream == 'DexAem').loc[b].values: the booleans of the rows
\* of burst b, in table order.
DexAem_loc(table, b) ==
    LET rows == SelectSeq(table, LAMBDA r : r.burst = b)
    IN [p \in 1..Len(rows) |-> rows[p].stream = "DexAem"]

\* range(0, stop, step) for step # 0 (step = 0 raises ValueError: the
\* callers test it first).
range(stop, step) ==
    IF step < 0 \/ stop <= 0 THEN <<>>
    ELSE [k \in 1..((stop + step - 1) \div step) |-> (k - 1) * step]

\* DexAem_burst[istart:istart + w].sum()
SliceSum(DexAem_burst, istart, w) ==
    Cardinality({p \in (istart + 1)..(istart + w) :
                    p <= Len(DexAem_burst) /\ DexAem_burst[p]})

\* The sub-burst loop with each ratio divided by the size of its own slice.
SubBurstsBySliceSize(DexAem_burst, w) ==
    LET starts == range(Len(DexAem_burst), w)
    IN [k \in 1..Len(starts) |->
          Frac(SliceSum(DexAem_burst, starts[k], w),
               IF starts[k] + w <= Len(DexAem_burst) THEN w
               ELSE Len(DexAem_burst) - starts[k])]

\* The sub-burst loop: for istart in range(0, shape[0], n):
\*     A_D = DexAem_burst[istart:istart + n].sum();  E = A_D / n
\* the list of the E it appends, in order.
SubBursts(DexAem_burst, w) ==
    LET starts == range(Len(DexAem_burst), w)
    IN [k \in 1..Len(starts) |->
          Frac(SliceSum(DexAem_burst, starts[k], w), w)]

\* The variance of a non-empty list of fractions, as a fraction:
\* mean(x^2) - mean(x)^2 over the common denominator D.
Variance(xs, ddof) ==
    LET D == LcmSeq([k \in DOMAIN xs |-> xs[k][2]])
        a == [k \in DOMAIN xs |-> xs[k][1] * (D \div xs[k][2])]
        m == Len(xs)
        S1 == SumSeq(a)
        S2 == SumSeq([k \in DOMAIN a |-> a[k] * a[k]])
    IN Frac(m * S2 - S1 * S1, m * (m - ddof) * D * D)

\* np.std with ddof=1 (the sample standard deviation): NaN for one value.
np_std_ddof1(xs) ==
    IF Len(xs) <= 1 THEN NaN ELSE Sqrt(Variance(xs, 1))

\* np.std(xs): the population standard deviation; NaN for an empty list.
np_std(xs) ==
    IF xs = <<>> THEN NaN ELSE Sqrt(Variance(xs, 0))

\* Line 62 (and 112): E_bins[:-1] + 0.5 * (E_bins[1] - E_bins[0]).
E_centers_of(bins) ==
    [j \in 1..(Len(bins) - 1) |->
        RAdd(bins[j], RMul(<<1, 2>>, RSub(bins[2], bins[1])))]

\* Lines 65-67 (and 115-116): the raw E of burst b, Na / (Nd + Na).
E_raw(table, b) ==
    LET DexAem_burst == DexAem_loc(table, b)
    IN Frac(SliceSum(DexAem_burst, 0, Len(DexAem_burst)), Len(DexAem_burst))

\* np.digitize(x, bins) for increasing bins (right=False): the index k with
\* bins[k-1] <= x < bins[k] in numpy's 0-based numbering, which is the number
\* of edges <= x: 0 below the first edge, len(bins) from the last edge on.
np_digitize(x, bins) ==
    Cardinality({j \in DOMAIN bins : RLe(bins[j], x)})

\* Lines 69-71 (and 118-120): the Series burst id -> np.digitize(...) - 1.
E_raw_bins_of(table, bins) ==
    [b \in {table[r].burst : r \in DOMAIN table} |->
        np_digitize(E_raw(table, b), bins) - 1]

\* The keys range(len(E_centers)) of the output curve.
BinKeys == 0..(Len(E_centers) - 1)

Init ==
    /\ burstsph_Dex \in PhotonTables
    /\ n \in NValues
    /\ num_sub_bursts_th \in ThValues
    /\ E_bins \in EdgeChoices
    /\ pc = "idle"
    /\ loop = <<>>
    /\ i = -1
    /\ E_centers = <<>>
    /\ E_raw_bins = EmptyDict
    /\ E_sub_bursts = <<>>
    /\ E_sub_std = <<>>
    /\ E_sub_bursts_bin = EmptyDict
    /\ E_sub_std_mean_bin = <<>>
    /\ ret = [bva |-> NotCalled, bva_bin |-> NotCalled,
              bva_bin_combo |-> NotCalled]

\* The locals of a call, gone when it returns or raises.
NoLocals ==
    /\ loop' = <<>>
    /\ i' = -1
    /\ E_centers' = <<>>
    /\ E_raw_bins' = EmptyDict
    /\ E_sub_bursts' = <<>>
    /\ E_sub_std' = <<>>
    /\ E_sub_bursts_bin' = EmptyDict
    /\ E_sub_std_mean_bin' = <<>>

(* A call starts from its arguments alone and its locals are gone when    *)
(* it ends, so the order of the calls changes no result: the three         *)
(* functions are called once each, in the order bva, bva_bin,              *)
(* bva_bin_combo, on the same arguments.                                   *)

(* -------------------------------- bva --------------------------------- *)

\* Lines 29-31: E_sub_std = [], DexAem, and the for loop's iterable.
bva_call ==
    /\ pc = "idle"
    /\ ret.bva.status = "none"
    /\ pc' = "bva"
    /\ loop' = np_unique(burstsph_Dex)
    /\ E_sub_std' = <<>>
    /\ UNCHANGED <<args, i, E_centers, E_raw_bins, E_sub_bursts,
                   E_sub_bursts_bin, E_sub_std_mean_bin, ret>>

\* Lines 31-38: one iteration of the burst loop. range(0, size, 0) raises
\* ValueError, which ends the call.
bva_for ==
    /\ pc = "bva"
    /\ loop # <<>>
    /\ IF n = 0
       THEN /\ ret' = [ret EXCEPT !.bva = Raised("ValueError")]
            /\ pc' = "idle"
            /\ NoLocals
       ELSE LET b == Head(loop)
                E == SubBursts(DexAem_loc(burstsph_Dex, b), n)
            IN /\ i' = b
               /\ E_sub_bursts' = E
               /\ E_sub_std' = Append(E_sub_std, np_std(E))
               /\ loop' = Tail(loop)
               /\ UNCHANGED <<pc, E_centers, E_raw_bins, E_sub_bursts_bin,
                              E_sub_std_mean_bin, ret>>
    /\ UNCHANGED args

\* Lines 39-40.
bva_return ==
    /\ pc = "bva"
    /\ loop = <<>>
    /\ ret' = [ret EXCEPT !.bva = Returned(E_sub_std, <<>>, <<>>)]
    /\ pc' = "idle"
    /\ NoLocals
    /\ UNCHANGED args

(* ------------------------------ bva_bin ------------------------------- *)

\* A gate that also reports a bin whose count equals the threshold.
bva_bin_gate_ge(count) == count >= num_sub_bursts_th

\* Line 83: len(E_sub_bursts_bin[i]) > num_sub_bursts_th.
bva_bin_gate(count) == count > num_sub_bursts_th

\* Lines 62-74: E_centers, the raw E of each burst and its bin, the empty
\* defaultdict, and the for loop's iterable.
bva_bin_call ==
    /\ pc = "idle"
    /\ ret.bva.status # "none"
    /\ ret.bva_bin.status = "none"
    /\ pc' = "bva_bin"
    /\ E_centers' = E_centers_of(E_bins)
    /\ E_raw_bins' = E_raw_bins_of(burstsph_Dex, E_bins)
    /\ E_sub_bursts_bin' = EmptyDict
    /\ loop' = np_unique(burstsph_Dex)
    /\ UNCHANGED <<args, i, E_sub_bursts, E_sub_std, E_sub_std_mean_bin, ret>>

\* Lines 74-80: one iteration of the burst loop; every E is appended to the
\* list of the burst's bin key, whatever the key is.
bva_bin_for ==
    /\ pc = "bva_bin"
    /\ loop # <<>>
    /\ IF n = 0
       THEN /\ ret' = [ret EXCEPT !.bva_bin = Raised("ValueError")]
            /\ pc' = "idle"
            /\ NoLocals
       ELSE LET b == Head(loop)
                E_raw_bin == E_raw_bins[b]
                E == SubBursts(DexAem_loc(burstsph_Dex, b), n)
            IN /\ i' = b
               /\ E_sub_bursts_bin' =
                    IF E = <<>> THEN E_sub_bursts_bin
                    ELSE [key \in DOMAIN E_sub_bursts_bin \cup {E_raw_bin} |->
                            IF key = E_raw_bin
                            THEN DictGet(E_sub_bursts_bin, key) \o E
                            ELSE E_sub_bursts_bin[key]]
               /\ loop' = Tail(loop)
               /\ UNCHANGED <<pc, E_centers, E_raw_bins, E_sub_bursts,
                              E_sub_std, E_sub_std_mean_bin, ret>>
    /\ UNCHANGED args

\* Lines 81-85: one value per key of range(len(E_centers)); reading
\* E_sub_bursts_bin[i] gives a missing key the empty list.
bva_bin_reduce ==
    /\ pc = "bva_bin"
    /\ loop = <<>>
    /\ pc' = "bva_bin_reduced"
    /\ E_sub_std_mean_bin' =
         [j \in 1..Len(E_centers) |->
            IF bva_bin_gate(Len(DictGet(E_sub_bursts_bin, j - 1)))
            THEN np_std(DictGet(E_sub_bursts_bin, j - 1))
            ELSE Sentinel]
    /\ E_sub_bursts_bin' =
         [key \in DOMAIN E_sub_bursts_bin \cup BinKeys |->
            DictGet(E_sub_bursts_bin, key)]
    /\ UNCHANGED <<args, loop, i, E_centers, E_raw_bins, E_sub_bursts,
                   E_sub_std, ret>>

\* Line 86.
bva_bin_return ==
    /\ pc = "bva_bin_reduced"
    /\ ret' = [ret EXCEPT
                 !.bva_bin = Returned(<<>>, E_sub_std_mean_bin, E_centers)]
    /\ pc' = "idle"
    /\ NoLocals
    /\ UNCHANGED args

(* --------------------------- bva_bin_combo ---------------------------- *)

\* Lines 141-142: E_bin_len.get(key, 0), the number of E under a bin key.
E_bin_len_get(key) ==
    SumSeq([k \in DOMAIN DictGet(E_sub_bursts_bin, key) |->
              Len(DictGet(E_sub_bursts_bin, key)[k])])

\* Line 144: E_bin_len.get(i, 0) > num_sub_bursts_th.
bva_bin_combo_gate(count) == count > num_sub_bursts_th

\* Lines 112-128.
bva_bin_combo_call ==
    /\ pc = "idle"
    /\ ret.bva_bin.status # "none"
    /\ ret.bva_bin_combo.status = "none"
    /\ pc' = "bva_bin_combo"
    /\ E_centers' = E_centers_of(E_bins)
    /\ E_raw_bins' = E_raw_bins_of(burstsph_Dex, E_bins)
    /\ E_sub_std' = <<>>
    /\ E_sub_bursts_bin' = EmptyDict
    /\ loop' = np_unique(burstsph_Dex)
    /\ UNCHANGED <<args, i, E_sub_bursts, E_sub_std_mean_bin, ret>>

\* Lines 128-140: one iteration of the burst loop; the burst's list of E is
\* appended, as one element, to the list of the burst's bin key.
bva_bin_combo_for ==
    /\ pc = "bva_bin_combo"
    /\ loop # <<>>
    /\ IF n = 0
       THEN /\ ret' = [ret EXCEPT !.bva_bin_combo = Raised("ValueError")]
            /\ pc' = "idle"
            /\ NoLocals
       ELSE LET b == Head(loop)
                E_raw_bin == E_raw_bins[b]
                E == SubBursts(DexAem_loc(burstsph_Dex, b), n)
            IN /\ i' = b
               /\ E_sub_bursts' = E
               /\ E_sub_bursts_bin' = DictAppend(E_sub_bursts_bin, E_raw_bin, E)
               /\ E_sub_std' = Append(E_sub_std, np_std(E))
               /\ loop' = Tail(loop)
               /\ UNCHANGED <<pc, E_centers, E_raw_bins, E_sub_std_mean_bin,
                              ret>>
    /\ UNCHANGED args

\* Lines 141-147. np.hstack of an empty list (a key with no burst, read
\* when the gate lets it through) raises ValueError.
bva_bin_combo_reduce ==
    /\ pc = "bva_bin_combo"
    /\ loop = <<>>
    /\ IF \E key \in BinKeys :
            /\ bva_bin_combo_gate(E_bin_len_get(key))
            /\ DictGet(E_sub_bursts_bin, key) = <<>>
       THEN /\ ret' = [ret EXCEPT !.bva_bin_combo = Raised("ValueError")]
            /\ pc' = "idle"
            /\ NoLocals
       ELSE /\ pc' = "bva_bin_combo_reduced"
            /\ E_sub_std_mean_bin' =
                 [j \in 1..Len(E_centers) |->
                    IF bva_bin_combo_gate(E_bin_len_get(j - 1))
                    THEN np_std(Flatten(DictGet(E_sub_bursts_bin, j - 1)))
                    ELSE Sentinel]
            /\ UNCHANGED <<loop, i, E_centers, E_raw_bins, E_sub_bursts,
                           E_sub_std, E_sub_bursts_bin, ret>>
    /\ UNCHANGED args

\* Line 148.
bva_bin_combo_return ==
    /\ pc = "bva_bin_combo_reduced"
    /\ ret' = [ret EXCEPT
                 !.bva_bin_combo =
                    Returned(E_sub_std, E_sub_std_mean_bin, E_centers)]
    /\ pc' = "idle"
    /\ NoLocals
    /\ UNCHANGED args

Next ==
    \/ bva_call
    \/ bva_for
    \/ bva_return
    \/ bva_bin_call
    \/ bva_bin_for
    \/ bva_bin_reduce
    \/ bva_bin_return
    \/ bva_bin_combo_call
    \/ bva_bin_combo_for
    \/ bva_bin_combo_reduce
    \/ bva_bin_combo_return

Spec == Init /\ [][Next]_vars

(* --------------------- what the claims speak about -------------------- *)
(* Read off the photon table itself, by position, not through the code's  *)
(* expressions.                                                            *)

Bursts == {burstsph_Dex[r].burst : r \in DOMAIN burstsph_Dex}
RowsOfBurst(b) == {r \in DOMAIN burstsph_Dex : burstsph_Dex[r].burst = b}
BurstSize(b) == Cardinality(RowsOfBurst(b))
\* The index level 'ph' of row r: its 0-based rank within its burst.
Ph(r) == Cardinality({q \in RowsOfBurst(burstsph_Dex[r].burst) : q < r})
Acceptors(b) ==
    Cardinality({r \in RowsOfBurst(b) : burstsph_Dex[r].stream = "DexAem"})
AllAcceptor(b) == Acceptors(b) = BurstSize(b)
RawE(b) == <<Acceptors(b), BurstSize(b)>>

CeilDiv(a, d) == (a + d - 1) \div d
MinOf(a, b) == IF a <= b THEN a ELSE b
\* 'DexAem' photons of burst b among photons k*n .. min((k+1)*n, s)-1.
WindowAcceptors(b, k) ==
    Cardinality({r \in RowsOfBurst(b) :
        /\ burstsph_Dex[r].stream = "DexAem"
        /\ k * n <= Ph(r)
        /\ Ph(r) <= MinOf((k + 1) * n, BurstSize(b)) - 1})

REq(a, b) == a[1] * b[2] = b[1] * a[2]
LastN(s, k) == SubSeq(s, Len(s) - k + 1, Len(s))
Zero == [kind |-> "sqrt", num |-> 0, den |-> 1]
IsReal(v) == v.kind = "sqrt" /\ v.num >= 0 /\ v.den > 0

\* ws is the window-ratio list the claim C1 describes for burst b.
IsWindowsOf(ws, b) ==
    /\ Len(ws) = CeilDiv(BurstSize(b), n)
    /\ \A k \in 1..Len(ws) :
         /\ REq(ws[k], <<WindowAcceptors(b, k - 1), n>>)
         /\ RLe(<<0, 1>>, ws[k])
         /\ RLe(ws[k], <<1, 1>>)

\* Bursts the running loop has visited.
Visited == {b \in Bursts : \A k \in DOMAIN loop : loop[k] # b}

RECURSIVE SumOver(_, _)
SumOver(f, S) ==
    IF S = {} THEN 0
    ELSE LET x == CHOOSE y \in S : TRUE IN f[x] + SumOver(f, S \ {x})

\* Number of window ratios the loop produces for burst b.
NumWindows(b) == IF n >= 1 THEN CeilDiv(BurstSize(b), n) ELSE 0

\* The arguments are the documented ones: a window of at least one photon
\* and a count as threshold.
InContract == n >= 1 /\ num_sub_bursts_th >= 0

(* C1: for a burst of size s >= 1 and n >= 1 the segmentation loop of bva, *)
(* bva_bin and bva_bin_combo produces exactly ceil(s/n) ratios in order,   *)
(* window k being (DexAem photons among photons k*n..min((k+1)n,s)-1 of    *)
(* that burst) / n, also for the short trailing window, each in [0,1].     *)
C1_Segmentation ==
    (n >= 1 /\ i # -1) =>
       /\ pc \in {"bva", "bva_bin_combo"} => IsWindowsOf(E_sub_bursts, i)
       /\ pc = "bva_bin_combo" =>
            LET l == DictGet(E_sub_bursts_bin, E_raw_bins[i])
            IN /\ l # <<>>
               /\ l[Len(l)] = E_sub_bursts
               /\ SumOver([k \in DOMAIN E_sub_bursts_bin |->
                             E_bin_len_get(k)], DOMAIN E_sub_bursts_bin)
                    = SumOver([b \in Bursts |-> NumWindows(b)], Visited)
       /\ pc = "bva_bin" =>
            LET l == DictGet(E_sub_bursts_bin, E_raw_bins[i])
            IN /\ Len(l) >= NumWindows(i)
               /\ IsWindowsOf(LastN(l, NumWindows(i)), i)
               /\ SumOver([k \in DOMAIN E_sub_bursts_bin |->
                             Len(E_sub_bursts_bin[k])], DOMAIN E_sub_bursts_bin)
                    = SumOver([b \in Bursts |-> NumWindows(b)], Visited)

\* A burst of 3 acceptor photons cut with n = 2: windows 1 and 1/2.
C1_Witness ==
    /\ pc = "bva_bin"
    /\ n = 2
    /\ i # -1
    /\ BurstSize(i) = 3
    /\ AllAcceptor(i)
    /\ LastN(E_sub_bursts_bin[E_raw_bins[i]], 2) = << <<1, 1>>, <<1, 2>> >>

(* C2: a burst with raw_E in [edges[0], edges[-1]] gets the bin index k    *)
(* with edges[k] <= raw_E < edges[k+1], the last bin being closed on the   *)
(* right, so raw_E equal to the last edge lands in the last bin.           *)
C2_LastBinClosed ==
    (InContract /\ pc \in {"bva_bin", "bva_bin_combo"}) =>
       \A b \in Visited :
          LET x == RawE(b)
              k == E_raw_bins[b]
              B == Len(E_bins) - 1
          IN (RLe(E_bins[1], x) /\ RLe(x, E_bins[B + 1])) =>
                /\ k \in 0..(B - 1)
                /\ RLe(E_bins[k + 1], x)
                /\ \/ RLt(x, E_bins[k + 2])
                   \/ k = B - 1 /\ REq(x, E_bins[B + 1])

\* Number of sub-burst ratios pooled under bin key k.
PooledCount(k) ==
    SumOver([b \in Bursts |-> NumWindows(b)],
            {b \in Bursts : E_raw_bins[b] = k})

C4_ComboIsBvaAndBvaBin ==
    (/\ n >= 1
     /\ ret.bva.status # "none"
     /\ ret.bva_bin.status # "none"
     /\ ret.bva_bin_combo.status # "none") =>
       /\ ret.bva_bin_combo.status = "ok"
       /\ ret.bva.status = "ok"
       /\ ret.bva_bin.status = "ok"
       /\ ret.bva_bin_combo.E_sub_std = ret.bva.E_sub_std
       /\ ret.bva_bin_combo.E_sub_std_mean_bin = ret.bva_bin.E_sub_std_mean_bin
       /\ ret.bva_bin_combo.E_centers = ret.bva_bin.E_centers

\* With a threshold that is a count (>= 0) the three results do agree.
ComboIsBvaAndBvaBinForCounts ==
    num_sub_bursts_th >= 0 => C4_ComboIsBvaAndBvaBin

(* C5: for strictly increasing edges, uniform or not, the center of bin i  *)
(* is edges[i] + 0.5*(edges[i+1]-edges[i]), so it lies within the bin.     *)
C5_CenterIsMidpoint ==
    InContract =>
       \A f \in {"bva_bin", "bva_bin_combo"} :
          ret[f].status = "ok" =>
             LET c == ret[f].E_centers
             IN /\ Len(c) = Len(E_bins) - 1
                /\ \A j \in 1..(Len(E_bins) - 1) :
                     /\ REq(RMul(<<2, 1>>, c[j]),
                            RAdd(E_bins[j], E_bins[j + 1]))
                     /\ RLe(E_bins[j], c[j])
                     /\ RLe(c[j], E_bins[j + 1])

(* C6: every n <= 0 is rejected with an error: no call of bva, bva_bin or  *)
(* bva_bin_combo with n <= 0 returns a result.                             *)
C6_NonPositiveRejected ==
    n <= 0 => \A f \in {"bva", "bva_bin", "bva_bin_combo"} :
                 ret[f].status # "ok"

\* The full windows of burst b: those of n photons.
FullWindows(b) == 1..(BurstSize(b) \div n)

(* C7, as the claim states it: for an all-acceptor burst of any size and   *)
(* any n >= 1, the dispersion bva computes is 0 and every full window's    *)
(* ratio is 1.                                                             *)
C7_AllAcceptorZero ==
    (InContract /\ pc = "bva" /\ i # -1 /\ AllAcceptor(i)) =>
       /\ \A k \in FullWindows(i) : E_sub_bursts[k] = <<1, 1>>
       /\ E_sub_std[Len(E_sub_std)] = Zero

\* The rank np.unique gives burst b: 1 for the smallest id.
Rank(b) == 1 + Cardinality({c \in Bursts : c < b})

(* C7, amended: for an all-acceptor burst and n >= 1, every full window's  *)
(* ratio is 1, and the dispersion is 0 exactly when the size is a multiple *)
(* of n or smaller than n; otherwise the short trailing window, divided by *)
(* n, is below 1 and the dispersion is positive.                           *)
C7_AllAcceptor ==
    n >= 1 =>
       /\ (pc = "bva" /\ i # -1 /\ AllAcceptor(i)) =>
            /\ \A k \in FullWindows(i) : E_sub_bursts[k] = <<1, 1>>
            /\ IsReal(E_sub_std[Len(E_sub_std)])
            /\ E_sub_std[Len(E_sub_std)] = Zero
                 <=> (BurstSize(i) % n = 0 \/ BurstSize(i) < n)
       /\ ret.bva.status = "ok" =>
            \A b \in Bursts :
               AllAcceptor(b) =>
                  /\ IsReal(ret.bva.E_sub_std[Rank(b)])
                  /\ ret.bva.E_sub_std[Rank(b)] = Zero
                       <=> (BurstSize(b) % n = 0 \/ BurstSize(b) < n)

\* 3 acceptor photons, n = 2: windows 1 and 1/2, dispersion sqrt(1/16).
C7_Witness ==
    /\ pc = "bva"
    /\ n = 2
    /\ i # -1
    /\ AllAcceptor(i)
    /\ BurstSize(i) = 3
    /\ E_sub_bursts = << <<1, 1>>, <<1, 2>> >>
    /\ E_sub_std[Len(E_sub_std)] = [kind |-> "sqrt", num |-> 1, den |-> 16]

IsSquare(x) == \E r \in 0..x : r * r = x
Root(x) == CHOOSE r \in 0..x : r * r = x
\* The dispersion bva computes for burst b.
BvaOf(b) == np_std(SubBursts(DexAem_loc(burstsph_Dex, b), n))
HasRationalBva(b) ==
    BvaOf(b).kind = "sqrt" /\ IsSquare(BvaOf(b).num) /\ IsSquare(BvaOf(b).den)
RationalBva(b) == <<Root(BvaOf(b).num), Root(BvaOf(b).den)>>

RECURSIVE RSumOver(_, _)
RSumOver(f, S) ==
    IF S = {} THEN <<0, 1>>
    ELSE LET x == CHOOSE y \in S : TRUE IN RAdd(f[x], RSumOver(f, S \ {x}))

BurstsOfBin(k) == {b \in Bursts : E_raw_bins[b] = k}

(* C8: for every bin whose gate is passed, the value bva_bin reports is    *)
(* the mean of the per-burst dispersions (as bva computes them) of the     *)
(* bursts classified into the bin. Decided where every one of those        *)
(* dispersions is rational: the square of their mean is then compared with *)
(* the square of the reported value.                                       *)
C8_MeanOfBurstDispersions ==
    (InContract /\ pc = "bva_bin_reduced") =>
       \A j \in 1..Len(E_sub_std_mean_bin) :
          LET S == BurstsOfBin(j - 1)
              v == E_sub_std_mean_bin[j]
              mean == RMul(RSumOver([b \in S |-> RationalBva(b)], S),
                           <<1, Cardinality(S)>>)
          IN (/\ v # Sentinel
              /\ S # {}
              /\ \A b \in S : HasRationalBva(b)) =>
                 /\ v.kind = "sqrt"
                 /\ REq(<<v.num, v.den>>, RMul(mean, mean))

(* C9: a burst whose raw efficiency lies outside [edges[0], edges[-1]] is  *)
(* clamped into an edge bin or rejected: its ratios are never stored under *)
(* a bin key outside 0..len(E_bins)-2.                                     *)
C9_NoOutOfRangeKey ==
    (InContract /\ pc \in {"bva_bin", "bva_bin_combo"}) =>
       \A b \in Visited :
          (RLt(RawE(b), E_bins[1]) \/ RLt(E_bins[Len(E_bins)], RawE(b))) =>
             ~(/\ E_raw_bins[b] \in DOMAIN E_sub_bursts_bin
               /\ E_sub_bursts_bin[E_raw_bins[b]] # <<>>
               /\ E_raw_bins[b] \notin BinKeys)

\* v is the standard deviation of the window ratios of burst b.
IsDispersionOf(v, b) ==
    LET m == NumWindows(b)
        c == [k \in 1..m |-> WindowAcceptors(b, k - 1)]
        S1 == SumSeq(c)
        S2 == SumSeq([k \in 1..m |-> c[k] * c[k]])
    IN /\ IsReal(v)
       /\ REq(<<v.num, v.den>>, <<m * S2 - S1 * S1, m * m * n * n>>)

\* E_sub_std holds one value >= 0 per burst, the k-th being the dispersion
\* of the k-th burst of the ordering ord.
IsPerBurst(std, ord) ==
    /\ Len(std) = Cardinality(Bursts)
    /\ Len(ord) = Len(std)
    /\ \A k \in 1..Len(std) : IsDispersionOf(std[k], ord[k])

(* C10, as the claim states it: for n >= 1, bva and the first array of     *)
(* bva_bin_combo hold one value >= 0 per distinct burst id, in the order   *)
(* in which the bursts appear in the input table.                          *)
C10_InputOrder ==
    InContract =>
       \A f \in {"bva", "bva_bin_combo"} :
          ret[f].status = "ok" =>
             IsPerBurst(ret[f].E_sub_std, FirstSeen(burstsph_Dex))

(* C10, amended: for n >= 1, bva and the first array of bva_bin_combo hold *)
(* one value >= 0 per distinct burst id, in ascending order of burst id    *)
(* (the input order only when the table's bursts are ascending).           *)
C10_AscendingOrder ==
    n >= 1 =>
       \A f \in {"bva", "bva_bin_combo"} :
          ret[f].status = "ok" =>
             /\ IsPerBurst(ret[f].E_sub_std, SortedSeq(Bursts))
             /\ FirstSeen(burstsph_Dex) = SortedSeq(Bursts) =>
                  IsPerBurst(ret[f].E_sub_std, FirstSeen(burstsph_Dex))

\* Burst 1 comes first in the table, and the two bursts differ in
\* dispersion: the values come back in the order burst 0, burst 1.
C10_Witness ==
    /\ n >= 1
    /\ ret.bva.status = "ok"
    /\ ret.bva_bin_combo.status = "ok"
    /\ FirstSeen(burstsph_Dex) = <<1, 0>>
    /\ Len(ret.bva.E_sub_std) = 2
    /\ ret.bva.E_sub_std[1] # ret.bva.E_sub_std[2]

====
